---------------------------- MODULE Spec2Model ----------------------------
(***************************************************************************)
(* Model of pulser/register/special_layouts.py: the special register       *)
(* layouts (rectangular, square, triangular, random) and the register      *)
(* carving methods built on them.                                          *)
(*                                                                         *)
(* Coordinates.  Spacings, radii and candidate coordinates range over      *)
(* small integers, on which the float arithmetic of the source is exact.   *)
(* A point of a rectangular lattice is <<x, y>>.  A point of a triangular  *)
(* lattice is <<a, b>> standing for (a * 0.5, b * crest_y): the two axes   *)
(* are measured in half-spacings and in crests.                            *)
(***************************************************************************)
EXTENDS Integers, Sequences, FiniteSets, TLC

(***************************************************************************)
(* Bounds of the model.                                                    *)
(***************************************************************************)
MaxRows == 2
MaxColumns == 2
MaxSpacing == 2
MaxTriTraps == 11
MaxTriSide == 2
MaxNTraps == 2
MaxRadius == 2
MaxMinSpacing == 2
MaxMaxIter == 2
MaxDraws == 4

VARIABLES
    pc,          \* "new", "loop", "body", "post", "raised", "concat_raised",
                 \* "ready"
    self,        \* the attributes the constructor of the layout has set
    traps,       \* trap_coordinates stored by RegisterLayout.__init__
    slug,        \* slug stored by RegisterLayout.__init__
    initialised, \* RegisterLayout.__init__ has run
    args,        \* arguments of the running RandomLayout.__init__
    pts,         \* self._pts
    i,           \* the local i of RandomLayout.__init__
    draws,       \* candidates drawn so far (saturates at MaxDraws)
    call,        \* the last register-carving call and its arguments
    outcome,     \* "none", "capacity", "resolution", "register"
    resolved,    \* get_traps_from_coordinates was invoked by the last call
    register     \* the register returned by the last call

vars == <<pc, self, traps, slug, initialised, args, pts, i, draws,
          call, outcome, resolved, register>>

regvars == <<call, outcome, resolved, register>>
rndvars == <<args, pts, i, draws>>

\* ------------------------------------------------------------------------
\* Helpers

Min(a, b) == IF a < b THEN a ELSE b

Range(s) == {s[k] : k \in DOMAIN s}

NoArgs == [n_traps |-> 0, radius |-> 0, min_spacing |-> 0, max_iter |-> 0]

NoSelf == [cls |-> "none"]

NoCall == [method |-> "none"]

\* ------------------------------------------------------------------------
\* Collaborators outside special_layouts.py: the pattern generators of
\* pulser.register._patterns and the RegisterLayout base class.

\* patterns.square_rect(rows, columns): the unit grid, row after row.
square_rect(rows, columns) ==
    [k \in 1..(rows * columns) |->
        <<(k - 1) % columns, (k - 1) \div columns>>]

\* patterns.triangular_rect(rows, columns): odd rows shifted by half a
\* spacing, rows one crest apart.
triangular_rect(rows, columns) ==
    [k \in 1..(rows * columns) |->
        <<2 * ((k - 1) % columns) + (((k - 1) \div columns) % 2),
          (k - 1) \div columns>>]

\* The hexagonal fill as one fixed sequence: the centre, the first ring,
\* the second ring.
HexFill ==
    << <<0, 0>>, <<-1, 1>>, <<1, 1>>, <<2, 0>>, <<1, -1>>, <<-1, -1>>,
       <<-2, 0>>,
       <<-4, 0>>, <<-3, 1>>, <<-2, 2>>, <<0, 2>>, <<2, 2>>, <<3, 1>>,
       <<4, 0>>, <<3, -1>>, <<2, -2>>, <<0, -2>>, <<-2, -2>>, <<-3, -1>> >>

\* patterns.triangular_hex(n_points): the first n_points of the fill.
triangular_hex(n_points) == SubSeq(HexFill, 1, n_points)

\* RegisterLayout.number_of_traps
number_of_traps(trap_coordinates) == Len(trap_coordinates)

\* The identity of the trap at a coordinate: its index, from 0.
TrapAt(trap_coordinates, point) ==
    (CHOOSE j \in DOMAIN trap_coordinates :
        /\ trap_coordinates[j] = point
        /\ \A l \in DOMAIN trap_coordinates :
              trap_coordinates[l] = point => j <= l) - 1

\* RegisterLayout.get_traps_from_coordinates(*points): fails when a point
\* is no trap of the layout.
get_traps_from_coordinates(trap_coordinates, points) ==
    IF \A k \in DOMAIN points : points[k] \in Range(trap_coordinates)
    THEN [ok |-> TRUE,
          trap_ids |-> [k \in DOMAIN points |->
                            TrapAt(trap_coordinates, points[k])]]
    ELSE [ok |-> FALSE, trap_ids |-> <<>>]

\* RegisterLayout.define_register(*trap_ids, qubit_ids=qubit_ids)
define_register(trap_ids, qubit_ids) ==
    [k \in DOMAIN trap_ids |->
        [qubit_id |-> qubit_ids[k], trap_id |-> trap_ids[k]]]

\* ------------------------------------------------------------------------
\* Strings are sequences of characters.

Digit(d) == <<"0", "1", "2", "3", "4", "5", "6", "7", "8", "9">>[d + 1]

RECURSIVE str(_)
\* str(n) of a natural number, as f"{i}" formats it
str(n) == IF n < 10 THEN <<Digit(n)>> ELSE Append(str(n \div 10), Digit(n % 10))

\* [f"{prefix}{i}" for i in range(len(trap_ids))]
QubitIds(prefix, trap_ids) ==
    [k \in 1..Len(trap_ids) |-> prefix \o str(k - 1)]

Prefixes == {<<"q">>, <<"a", "1">>}

\* ------------------------------------------------------------------------
\* Scaling of the unit patterns

\* points[:, 0] * x_spacing, points[:, 1] * y_spacing
ScaleXY(points, x_spacing, y_spacing) ==
    [k \in DOMAIN points |->
        <<points[k][1] * x_spacing, points[k][2] * y_spacing>>]

\* points * spacing
Scale(points, spacing) ==
    [k \in DOMAIN points |-> <<points[k][1] * spacing, points[k][2] * spacing>>]

\* trap_ids = self.get_traps_from_coordinates(*points); qubit_ids = ...;
\* return self.define_register(*trap_ids, qubit_ids=qubit_ids)
Carve(trap_coordinates, points, prefix) ==
    LET found == get_traps_from_coordinates(trap_coordinates, points)
    IN  IF found.ok
        THEN [outcome |-> "register", resolved |-> TRUE,
              register |-> define_register(found.trap_ids,
                                           QubitIds(prefix, found.trap_ids))]
        ELSE [outcome |-> "resolution", resolved |-> TRUE, register |-> <<>>]

CapacityError == [outcome |-> "capacity", resolved |-> FALSE, register |-> <<>>]

\* ------------------------------------------------------------------------
\* RectangularLatticeLayout and SquareLatticeLayout

\* RectangularTraps with both axes scaled by x_spacing.
RectangularTraps_OneSpacing(rows, columns, x_spacing, y_spacing) ==
    ScaleXY(square_rect(rows, columns), x_spacing, x_spacing)

\* self._traps of RectangularLatticeLayout.__init__
RectangularTraps(rows, columns, x_spacing, y_spacing) ==
    ScaleXY(square_rect(rows, columns), x_spacing, y_spacing)

RectangularSlug(rows, columns, x_spacing, y_spacing) ==
    <<"RectangularLatticeLayout", rows, columns, x_spacing, y_spacing>>

\* RectangularTooBig raising only when both dimensions are exceeded.
RectangularTooBig_Both(layout, rows, columns) ==
    rows > layout.rows /\ columns > layout.columns

\* if rows > self._rows or columns > self._columns: raise ValueError
RectangularTooBig(layout, rows, columns) ==
    rows > layout.rows \/ columns > layout.columns

\* RectangularRegister with the sub-grid scaled by x_spacing on both axes.
RectangularRegister_OneSpacing(layout, trap_coordinates, rows, columns, prefix) ==
    IF rows > layout.rows \/ columns > layout.columns
    THEN CapacityError
    ELSE Carve(trap_coordinates,
               ScaleXY(square_rect(rows, columns),
                       layout.x_spacing, layout.x_spacing),
               prefix)

\* RectangularLatticeLayout.rectangular_register(rows, columns, prefix)
RectangularRegister(layout, trap_coordinates, rows, columns, prefix) ==
    IF RectangularTooBig(layout, rows, columns)
    THEN CapacityError
    ELSE Carve(trap_coordinates,
               ScaleXY(square_rect(rows, columns),
                       layout.x_spacing, layout.y_spacing),
               prefix)

\* RectangularLatticeLayout.square_register(side, prefix)
SquareRegister(layout, trap_coordinates, side, prefix) ==
    RectangularRegister(layout, trap_coordinates, side, side, prefix)

NewRectangularLatticeLayout ==
    /\ pc = "new"
    /\ \E rows \in 1..MaxRows, columns \in 1..MaxColumns,
          x_spacing \in -MaxSpacing..MaxSpacing,
          y_spacing \in -MaxSpacing..MaxSpacing :
          /\ self' = [cls |-> "RectangularLatticeLayout",
                      rows |-> rows, columns |-> columns,
                      x_spacing |-> x_spacing, y_spacing |-> y_spacing]
          /\ traps' = RectangularTraps(rows, columns, x_spacing, y_spacing)
          /\ slug' = RectangularSlug(rows, columns, x_spacing, y_spacing)
    /\ initialised' = TRUE
    /\ pc' = "ready"
    /\ UNCHANGED <<rndvars, regvars>>

NewSquareLatticeLayout ==
    /\ pc = "new"
    /\ \E rows \in 1..MaxRows, columns \in 1..MaxColumns,
          spacing \in -MaxSpacing..MaxSpacing :
          /\ self' = [cls |-> "SquareLatticeLayout",
                      rows |-> rows, columns |-> columns, spacing |-> spacing,
                      x_spacing |-> spacing, y_spacing |-> spacing]
          /\ traps' = RectangularTraps(rows, columns, spacing, spacing)
          /\ slug' = RectangularSlug(rows, columns, spacing, spacing)
    /\ initialised' = TRUE
    /\ pc' = "ready"
    /\ UNCHANGED <<rndvars, regvars>>

IsRectangular ==
    self.cls \in {"RectangularLatticeLayout", "SquareLatticeLayout"}

Return(result) ==
    /\ outcome' = result.outcome
    /\ resolved' = result.resolved
    /\ register' = result.register

RectangularRegisterCall ==
    /\ pc = "ready"
    /\ IsRectangular
    /\ \E rows \in 1..(MaxRows + 1), columns \in 1..(MaxColumns + 1),
          prefix \in Prefixes :
          /\ call' = [method |-> "rectangular_register", rows |-> rows,
                      columns |-> columns, prefix |-> prefix]
          /\ Return(RectangularRegister(self, traps, rows, columns, prefix))
    /\ UNCHANGED <<pc, self, traps, slug, initialised, rndvars>>

SquareRegisterCall ==
    /\ pc = "ready"
    /\ IsRectangular
    /\ \E side \in 1..(MaxRows + 1), prefix \in Prefixes :
          /\ call' = [method |-> "square_register", side |-> side,
                      prefix |-> prefix]
          /\ Return(SquareRegister(self, traps, side, prefix))
    /\ UNCHANGED <<pc, self, traps, slug, initialised, rndvars>>

\* ------------------------------------------------------------------------
\* TriangularLatticeLayout and TriangularLatticeLayoutRectShape

\* patterns.triangular_hex(int(n_traps)) * self._spacing
TriangularTraps(n_traps, spacing) == Scale(triangular_hex(n_traps), spacing)

TriangularSlug(n_traps, spacing) ==
    <<"TriangularLatticeLayout", n_traps, spacing>>

\* if n_atoms > self.number_of_traps: raise ValueError
HexagonalTooBig(trap_coordinates, n_atoms) ==
    n_atoms > number_of_traps(trap_coordinates)

\* HexagonalRegister resolving the unit points, not scaled by the spacing.
HexagonalRegister_Unscaled(layout, trap_coordinates, n_atoms, prefix) ==
    IF n_atoms > Len(trap_coordinates)
    THEN CapacityError
    ELSE Carve(trap_coordinates, triangular_hex(n_atoms), prefix)

\* TriangularLatticeLayout.hexagonal_register(n_atoms, prefix)
HexagonalRegister(layout, trap_coordinates, n_atoms, prefix) ==
    IF HexagonalTooBig(trap_coordinates, n_atoms)
    THEN CapacityError
    ELSE Carve(trap_coordinates,
               Scale(triangular_hex(n_atoms), layout.spacing), prefix)

\* if rows * atoms_per_row > self.number_of_traps: raise ValueError
TriRectangularTooBig(trap_coordinates, rows, atoms_per_row) ==
    rows * atoms_per_row > number_of_traps(trap_coordinates)

\* TriangularLatticeLayout.rectangular_register(rows, atoms_per_row, prefix)
TriRectangularRegister(layout, trap_coordinates, rows, atoms_per_row, prefix) ==
    IF TriRectangularTooBig(trap_coordinates, rows, atoms_per_row)
    THEN CapacityError
    ELSE Carve(trap_coordinates,
               Scale(triangular_rect(rows, atoms_per_row), layout.spacing),
               prefix)

NewTriangularLatticeLayout ==
    /\ pc = "new"
    /\ \E n_traps \in 1..MaxTriTraps, spacing \in -MaxSpacing..MaxSpacing :
          /\ self' = [cls |-> "TriangularLatticeLayout", spacing |-> spacing]
          /\ traps' = TriangularTraps(n_traps, spacing)
          /\ slug' = TriangularSlug(n_traps, spacing)
    /\ initialised' = TRUE
    /\ pc' = "ready"
    /\ UNCHANGED <<rndvars, regvars>>

\* patterns.triangular_rect(self._rows, self._columns) * self._spacing
TriangularRectShapeTraps(rows, columns, spacing) ==
    Scale(triangular_rect(rows, columns), spacing)

NewTriangularLatticeLayoutRectShape ==
    /\ pc = "new"
    /\ \E columns \in 1..MaxColumns, rows \in 1..MaxRows,
          spacing \in -MaxSpacing..MaxSpacing :
          /\ self' = [cls |-> "TriangularLatticeLayoutRectShape",
                      spacing |-> spacing, columns |-> columns, rows |-> rows]
          /\ traps' = TriangularRectShapeTraps(rows, columns, spacing)
          /\ slug' = <<"TriangularLatticeLayoutRectshape", rows, columns, spacing>>
    /\ initialised' = TRUE
    /\ pc' = "ready"
    /\ UNCHANGED <<rndvars, regvars>>

HexagonalRegisterCall ==
    /\ pc = "ready"
    /\ self.cls = "TriangularLatticeLayout"
    /\ \E n_atoms \in 1..(MaxTriTraps + 1), prefix \in Prefixes :
          /\ call' = [method |-> "hexagonal_register", n_atoms |-> n_atoms,
                      prefix |-> prefix]
          /\ Return(HexagonalRegister(self, traps, n_atoms, prefix))
    /\ UNCHANGED <<pc, self, traps, slug, initialised, rndvars>>

TriRectangularRegisterCall ==
    /\ pc = "ready"
    /\ self.cls = "TriangularLatticeLayout"
    /\ \E rows \in 1..(MaxTriSide + 1), atoms_per_row \in 1..(MaxTriSide + 1),
          prefix \in Prefixes :
          /\ call' = [method |-> "tri_rectangular_register", rows |-> rows,
                      atoms_per_row |-> atoms_per_row, prefix |-> prefix]
          /\ Return(TriRectangularRegister(self, traps, rows, atoms_per_row,
                                           prefix))
    /\ UNCHANGED <<pc, self, traps, slug, initialised, rndvars>>

\* ------------------------------------------------------------------------
\* RandomLayout.__init__

\* pt_x**2 + pt_y**2 <= radius**2
InDisk(pt, radius) == pt[1] * pt[1] + pt[2] * pt[2] <= radius * radius

\* FartherThan with the comparison dist >= min_spacing.
FartherThan_AtLeast(p, q, min_spacing) ==
    LET d2 == (p[1] - q[1]) * (p[1] - q[1]) + (p[2] - q[2]) * (p[2] - q[2])
    IN  IF min_spacing < 0 THEN TRUE ELSE d2 >= min_spacing * min_spacing

\* one entry of cdist(...) > self._min_spacing, on squared distances
FartherThan(p, q, min_spacing) ==
    LET d2 == (p[1] - q[1]) * (p[1] - q[1]) + (p[2] - q[2]) * (p[2] - q[2])
    IN  IF min_spacing < 0 THEN TRUE ELSE d2 > min_spacing * min_spacing

\* np.all(dist > self._min_spacing)
AllFarther(points, pt, min_spacing) ==
    \A k \in DOMAIN points : FartherThan(points[k], pt, min_spacing)

\* LoopCond with the comparison i <= max_iter.
LoopCond_Inclusive(points, n_traps, iter, max_iter) ==
    Len(points) < n_traps /\ iter <= max_iter

\* while len(self._pts) < n_traps and i < max_iter
LoopCond(points, n_traps, iter, max_iter) ==
    Len(points) < n_traps /\ iter < max_iter

\* LoopBody with i += 1 reached on every path, the two early "continue"
\* included.
LoopBody_CountsEveryDraw(points, iter, pt, radius, min_spacing) ==
    IF points = <<>> /\ InDisk(pt, radius)
    THEN <<Append(points, pt), iter + 1>>
    ELSE IF Len(points) = 0
    THEN <<points, iter + 1>>
    ELSE IF InDisk(pt, radius) /\ AllFarther(points, pt, min_spacing)
    THEN <<Append(points, pt), iter + 1>>
    ELSE <<points, iter + 1>>

\* The body of the loop on candidate pt: the new <<self._pts, i>>.
LoopBody(points, iter, pt, radius, min_spacing) ==
    IF points = <<>> /\ InDisk(pt, radius)
    THEN <<Append(points, pt), iter>>
    ELSE IF Len(points) = 0
    THEN <<points, iter>>
    ELSE IF InDisk(pt, radius) /\ AllFarther(points, pt, min_spacing)
    THEN <<Append(points, pt), iter + 1>>
    ELSE <<points, iter + 1>>

\* PackingFails raising only when no point at all was accepted.
PackingFails_OnlyWhenEmpty(points, n_traps) == Len(points) = 0 /\ n_traps > 0

\* if len(self._pts) < n_traps: raise ValueError(...)
PackingFails(points, n_traps) == Len(points) < n_traps

RandomSlug(n_traps, min_spacing) == <<"RandomLayout", n_traps, min_spacing>>

RandomLayoutBegin ==
    /\ pc = "new"
    /\ \E n \in 0..MaxNTraps, r \in 0..MaxRadius,
          m \in -1..MaxMinSpacing, mi \in 0..MaxMaxIter :
          /\ args' = [n_traps |-> n, radius |-> r,
                      min_spacing |-> m, max_iter |-> mi]
          /\ self' = [cls |-> "RandomLayout", n_traps |-> n, min_spacing |-> m]
    /\ pts' = <<>>
    /\ i' = 0
    /\ draws' = 0
    /\ pc' = "loop"
    /\ UNCHANGED <<traps, slug, initialised, regvars>>

RandomLayoutTest ==
    /\ pc = "loop"
    /\ pc' = IF LoopCond(pts, args.n_traps, i, args.max_iter)
             THEN "body" ELSE "post"
    /\ UNCHANGED <<self, traps, slug, initialised, rndvars, regvars>>

RandomLayoutDraw ==
    /\ pc = "body"
    /\ \E x \in -args.radius..args.radius, y \in -args.radius..args.radius :
          LET next == LoopBody(pts, i, <<x, y>>, args.radius, self.min_spacing)
          IN  /\ pts' = next[1]
              /\ i' = next[2]
    /\ draws' = Min(draws + 1, MaxDraws)
    /\ pc' = "loop"
    /\ UNCHANGED <<self, traps, slug, initialised, args, regvars>>

\* Lines 275-283: the packing error, or np.concatenate(self._pts) (which
\* raises on an empty list) and RegisterLayout.__init__.
RandomLayoutEnd ==
    /\ pc = "post"
    /\ IF PackingFails(pts, args.n_traps)
       THEN /\ pc' = "raised"
            /\ UNCHANGED <<traps, slug, initialised>>
       ELSE IF pts = <<>>
       THEN /\ pc' = "concat_raised"
            /\ UNCHANGED <<traps, slug, initialised>>
       ELSE /\ pc' = "ready"
            /\ traps' = pts
            /\ slug' = RandomSlug(self.n_traps, self.min_spacing)
            /\ initialised' = TRUE
    /\ UNCHANGED <<self, rndvars, regvars>>

Init ==
    /\ pc = "new"
    /\ self = NoSelf
    /\ traps = <<>>
    /\ slug = <<>>
    /\ initialised = FALSE
    /\ args = NoArgs
    /\ pts = <<>>
    /\ i = 0
    /\ draws = 0
    /\ call = NoCall
    /\ outcome = "none"
    /\ resolved = FALSE
    /\ register = <<>>

Next ==
    \/ NewRectangularLatticeLayout
    \/ NewSquareLatticeLayout
    \/ NewTriangularLatticeLayout
    \/ NewTriangularLatticeLayoutRectShape
    \/ RectangularRegisterCall
    \/ SquareRegisterCall
    \/ HexagonalRegisterCall
    \/ TriRectangularRegisterCall
    \/ RandomLayoutBegin
    \/ RandomLayoutTest
    \/ RandomLayoutDraw
    \/ RandomLayoutEnd

Spec == Init /\ [][Next]_vars

\* The constructor runs to completion once called: its steps are taken as
\* long as they are enabled.  Which candidate is drawn is left open.
FairSpec ==
    /\ Init /\ [][Next]_vars
    /\ WF_vars(RandomLayoutTest \/ RandomLayoutDraw \/ RandomLayoutEnd)

\* ------------------------------------------------------------------------
\* Properties of RandomLayout.__init__

IsRandom == self.cls = "RandomLayout"

\* The squared distance between two points.
SquaredDistance(p, q) ==
    (p[1] - q[1]) * (p[1] - q[1]) + (p[2] - q[2]) * (p[2] - q[2])

\* Every point of the sequence is in the closed disk, and every pair of
\* entries is strictly farther apart than min_spacing.
WellPacked(points, radius, min_spacing) ==
    /\ \A k \in DOMAIN points :
          points[k][1] * points[k][1] + points[k][2] * points[k][2]
              <= radius * radius
    /\ \A j \in DOMAIN points, k \in DOMAIN points :
          j # k => \/ min_spacing < 0
                   \/ SquaredDistance(points[j], points[k])
                          > min_spacing * min_spacing

\* C1: at every point of the sampling loop the accepted points lie in the
\* closed disk of the given radius and are pairwise strictly farther apart
\* than min_spacing; a RandomLayout constructed with n_traps >= 1 stores
\* exactly n_traps such points.
C1_PackedInDisk ==
    IsRandom =>
        /\ WellPacked(pts, args.radius, args.min_spacing)
        /\ (pc = "ready" /\ args.n_traps >= 1) =>
              /\ Len(traps) = args.n_traps
              /\ WellPacked(traps, args.radius, args.min_spacing)

C1_Witness ==
    /\ IsRandom
    /\ pc = "ready"
    /\ args.n_traps = 2
    /\ args.min_spacing = 1
    /\ Len(traps) = 2
    /\ draws > 2

\* C2: the number of candidates drawn by one construction never exceeds
\* max_iter.
C2_DrawsWithinMaxIter == IsRandom => draws <= args.max_iter

\* C3: a loop that ends with fewer than n_traps accepted points ends in the
\* packing error, with no trap storage and no slug set; the packing error
\* is raised only with fewer than n_traps accepted points.
C3_NoPartialLayout ==
    IsRandom =>
        /\ (pc \in {"post", "raised", "concat_raised", "ready"}
              /\ Len(pts) < args.n_traps) =>
              /\ pc \in {"post", "raised"}
              /\ ~initialised
              /\ traps = <<>>
              /\ slug = <<>>
        /\ pc = "raised" => Len(pts) < args.n_traps
        /\ pc = "ready" => initialised /\ Len(traps) >= args.n_traps

C3_Witness ==
    /\ IsRandom
    /\ pc = "raised"
    /\ Len(pts) = 1
    /\ args.n_traps = 2
    /\ ~initialised

\* C6: a RandomLayout construction that has entered its sampling loop
\* eventually ends, with a layout or with an error.
C6_Terminates ==
    (pc = "loop") ~> (pc \in {"raised", "concat_raised", "ready"})

\* C9: with max_iter = 0 and n_traps > 0 no candidate is ever drawn, no
\* layout is initialised, and the construction ends in the packing error.
C9_ZeroIterationsFails ==
    (IsRandom /\ args.max_iter = 0 /\ args.n_traps > 0) =>
        /\ pc \in {"loop", "post", "raised"}
        /\ draws = 0
        /\ pts = <<>>
        /\ ~initialised

C9_Witness ==
    /\ IsRandom
    /\ pc = "raised"
    /\ args.max_iter = 0
    /\ args.n_traps > 0
    /\ args.radius > 0
    /\ args.min_spacing > 0

\* One execution of the loop body counts exactly when a point was already
\* accepted before the candidate was drawn.
C10_CounterStep ==
    (pc = "body" /\ pc' = "loop") =>
        i' = IF Len(pts) >= 1 THEN i + 1 ELSE i

C10_ErrorAfterFirstPoint ==
    (IsRandom /\ args.max_iter >= 1) =>
        /\ pc = "raised" => Len(pts) >= 1
        /\ args.n_traps = 1 => pc # "raised"

\* C10: the iteration counter advances by one for each candidate drawn
\* while a point is already accepted and stays put for each candidate
\* drawn while none is; so with max_iter >= 1 the packing error comes only
\* after a first point was accepted, and never when n_traps = 1.
C10_CounterSkipsEmptyDraws ==
    [][C10_CounterStep]_vars /\ [](C10_ErrorAfterFirstPoint)

C10_Witness ==
    /\ IsRandom
    /\ pc = "raised"
    /\ args.max_iter >= 1
    /\ Len(pts) >= 1
    /\ i = args.max_iter
    /\ draws > i + 1

\* ------------------------------------------------------------------------
\* Properties of the lattice layouts and of their register methods

IsTriangular == self.cls = "TriangularLatticeLayout"

Rejected == outcome = "capacity" /\ ~resolved /\ register = <<>>

\* C4: an over-sized request to any of the four register methods ends in
\* the capacity error, with no trap resolution attempted and no register
\* built.
C4_CapacityBeforeResolution ==
    /\ (call.method = "rectangular_register"
          /\ (call.rows > self.rows \/ call.columns > self.columns))
          => Rejected
    /\ (call.method = "square_register"
          /\ (call.side > self.rows \/ call.side > self.columns))
          => Rejected
    /\ (call.method = "hexagonal_register" /\ call.n_atoms > Len(traps))
          => Rejected
    /\ (call.method = "tri_rectangular_register"
          /\ call.rows * call.atoms_per_row > Len(traps))
          => Rejected

C4_Witness ==
    /\ call.method = "rectangular_register"
    /\ call.rows > self.rows
    /\ call.columns < self.columns
    /\ self.x_spacing # 0
    /\ self.y_spacing # 0
    /\ Rejected

\* The set of traps a register uses.
UsedTraps(reg) == {reg[k].trap_id : k \in DOMAIN reg}

\* The register is the rows x columns sub-grid: one qubit per sub-grid
\* point, in generation order (row after row), qubit k named prefix + k
\* and sitting on the trap at the scaled point; no trap is used twice.
IsSubGridRegister(rows, columns, prefix) ==
    /\ outcome = "register"
    /\ Len(register) = rows * columns
    /\ Cardinality(UsedTraps(register)) = rows * columns
    /\ \A k \in 1..(rows * columns) :
          /\ register[k].qubit_id = prefix \o str(k - 1)
          /\ register[k].trap_id \in 0..(Len(traps) - 1)
          /\ traps[register[k].trap_id + 1] =
                <<((k - 1) % columns) * self.x_spacing,
                  ((k - 1) \div columns) * self.y_spacing>>

\* C5: on a rectangular layout with non-zero spacings a request that fits
\* is always resolved, to the register of the sub-grid; square_register
\* (side) behaves as rectangular_register(side, side).
C5_SubGridRegister ==
    (IsRectangular /\ self.x_spacing # 0 /\ self.y_spacing # 0) =>
        /\ (call.method = "rectangular_register"
              /\ call.rows <= self.rows /\ call.columns <= self.columns)
              => IsSubGridRegister(call.rows, call.columns, call.prefix)
        /\ (call.method = "square_register"
              /\ call.side <= self.rows /\ call.side <= self.columns)
              => IsSubGridRegister(call.side, call.side, call.prefix)
        /\ (call.method = "square_register"
              /\ (call.side > self.rows \/ call.side > self.columns))
              => Rejected

C5_Witness ==
    /\ IsRectangular
    /\ call.method = "square_register"
    /\ call.side = 2
    /\ self.rows = 2
    /\ self.columns = 2
    /\ self.x_spacing = -1
    /\ self.y_spacing = 2
    /\ outcome = "register"
    /\ Len(register) = 4
    /\ register[4].qubit_id = <<"q", "3">>

\* The register holds the first n_atoms points of the hexagonal fill:
\* qubit k named prefix + k, on the trap at the k-th point scaled.
IsHexagonalRegister(n_atoms, prefix) ==
    /\ outcome = "register"
    /\ Len(register) = n_atoms
    /\ \A k \in 1..n_atoms :
          /\ register[k].qubit_id = prefix \o str(k - 1)
          /\ register[k].trap_id \in 0..(Len(traps) - 1)
          /\ traps[register[k].trap_id + 1] =
                <<HexFill[k][1] * self.spacing, HexFill[k][2] * self.spacing>>

\* hexagonal_register(N) on a layout of N traps uses each trap once.
UsesEveryTrapOnce ==
    (call.n_atoms = Len(traps)) =>
        /\ UsedTraps(register) = 0..(Len(traps) - 1)
        /\ Cardinality(UsedTraps(register)) = Len(register)

\* C7 as stated: for every spacing, hexagonal_register(n_atoms) with
\* n_atoms <= N returns the register of the first n_atoms points of the
\* fill, and hexagonal_register(N) uses every trap exactly once.
C7_HexagonalRegisterAnySpacing ==
    (IsTriangular /\ call.method = "hexagonal_register"
        /\ call.n_atoms <= Len(traps)) =>
        /\ IsHexagonalRegister(call.n_atoms, call.prefix)
        /\ UsesEveryTrapOnce

\* C7, amended: the same for every non-zero spacing.
C7_HexagonalRegister ==
    (IsTriangular /\ self.spacing # 0 /\ call.method = "hexagonal_register"
        /\ call.n_atoms <= Len(traps)) =>
        /\ IsHexagonalRegister(call.n_atoms, call.prefix)
        /\ UsesEveryTrapOnce

C7_Witness ==
    /\ IsTriangular
    /\ self.spacing = 2
    /\ Len(traps) = 7
    /\ call.method = "hexagonal_register"
    /\ call.n_atoms = 7
    /\ outcome = "register"
    /\ Len(register) = 7

XCoordinates == {traps[k][1] : k \in DOMAIN traps}

YCoordinates == {traps[k][2] : k \in DOMAIN traps}

Abs(x) == IF x < 0 THEN -x ELSE x

SetMax(S) == CHOOSE x \in S : \A y \in S : y <= x

SetMin(S) == CHOOSE x \in S : \A y \in S : x <= y

\* The extent of a non-empty set of coordinates: largest minus smallest.
Span(S) == SetMax(S) - SetMin(S)

\* The trap count and the axis-by-axis scaling of a rectangular layout.
RectangularShape ==
    /\ Len(traps) = self.rows * self.columns
    /\ XCoordinates = {a * self.x_spacing : a \in 0..(self.columns - 1)}
    /\ YCoordinates = {b * self.y_spacing : b \in 0..(self.rows - 1)}

\* C8 as stated: rows*columns traps, x scaled by x_spacing only and y by
\* y_spacing only, the y-coordinates spanning (rows-1)*y_spacing and the
\* x-coordinates (columns-1)*x_spacing.
C8_SignedSpan ==
    (IsRectangular /\ pc = "ready") =>
        /\ RectangularShape
        /\ Span(YCoordinates) = (self.rows - 1) * self.y_spacing
        /\ Span(XCoordinates) = (self.columns - 1) * self.x_spacing

\* C8, amended: the spans are (rows-1)*|y_spacing| and
\* (columns-1)*|x_spacing|.
C8_AbsoluteSpan ==
    (IsRectangular /\ pc = "ready") =>
        /\ RectangularShape
        /\ Span(YCoordinates) = (self.rows - 1) * Abs(self.y_spacing)
        /\ Span(XCoordinates) = (self.columns - 1) * Abs(self.x_spacing)

C8_Witness ==
    /\ IsRectangular
    /\ pc = "ready"
    /\ self.rows = 2
    /\ self.columns = 2
    /\ self.x_spacing = 2
    /\ self.y_spacing = -1
    /\ Len(traps) = 4

=============================================================================
